---- MODULE Spec2Model ----
(***************************************************************************)
(* Model of the helpers of vuepress-plugin-llms: normalizePath, stripExt,  *)
(* expandTemplate, generateMetadata (src/src/helpers/utils.ts) and         *)
(* generateTOC, generateLLMsTxt, generateLLMsFullTxt                       *)
(* (src/src/helpers/index.ts).                                             *)
(*                                                                         *)
(* A JavaScript string is a sequence of one-character strings, so that     *)
(* slicing, searching and splitting are computed character by character.   *)
(***************************************************************************)
EXTENDS Integers, Sequences, FiniteSets, TLC

\* ------------------------------------------------------------------------
\* Bounds of the model
\* ------------------------------------------------------------------------

\* Largest number of path components of an input file path.
MaxDepth == 2

\* Largest number of prepared files handed to one call.
MaxFiles == 2

\* ------------------------------------------------------------------------
\* JavaScript strings
\* ------------------------------------------------------------------------

Min(a, b) == IF a < b THEN a ELSE b

Max(a, b) == IF a > b THEN a ELSE b

\* String.prototype.slice(start, end) with 0-based, possibly negative indexes.
JsSlice(s, start, end) ==
  LET n  == Len(s)
      from == IF start < 0 THEN Max(n + start, 0) ELSE Min(start, n)
      to == IF end < 0 THEN Max(n + end, 0) ELSE Min(end, n)
  IN  IF from >= to THEN << >> ELSE SubSeq(s, from + 1, to)

\* String.prototype.startsWith
StartsWith(s, p) == Len(p) <= Len(s) /\ SubSeq(s, 1, Len(p)) = p

\* String.prototype.endsWith
EndsWith(s, p) == Len(p) <= Len(s) /\ SubSeq(s, Len(s) - Len(p) + 1, Len(s)) = p

\* Does the string w occur in s at (1-based) position i?
OccursAt(s, w, i) == i >= 1 /\ i + Len(w) - 1 <= Len(s) /\ SubSeq(s, i, i + Len(w) - 1) = w

Contains(s, w) == \E i \in 1..(Len(s) + 1) : OccursAt(s, w, i)

\* filePath.replace(/\\/g, '/')
ReplaceBackslashes(s) == [i \in 1..Len(s) |-> IF s[i] = "\\" THEN "/" ELSE s[i]]

\* 1-based position of the first occurrence of w in s at or after from; 0 if none.
IndexOf(s, w, from) ==
  LET I == {i \in from..(Len(s) + 1) : OccursAt(s, w, i)}
  IN  IF I = {} THEN 0 ELSE CHOOSE i \in I : \A j \in I : i <= j

\* String.prototype.split(separator) for a non-empty separator: the pieces
\* between the non-overlapping occurrences found from left to right.
RECURSIVE SplitFrom(_, _, _)
SplitFrom(s, sep, from) ==
  LET k == IndexOf(s, sep, from)
  IN  IF k = 0
      THEN <<SubSeq(s, from, Len(s))>>
      ELSE <<SubSeq(s, from, k - 1)>> \o SplitFrom(s, sep, k + Len(sep))

Split(s, sep) == SplitFrom(s, sep, 1)

\* Array.prototype.join(separator)
RECURSIVE Join(_, _)
Join(parts, sep) ==
  IF Len(parts) = 0 THEN << >>
  ELSE IF Len(parts) = 1 THEN parts[1]
  ELSE parts[1] \o sep \o Join(Tail(parts), sep)

\* The white space and line terminators of ECMAScript. A character that a
\* string of this module cannot hold stands under the name of its code point.
WhiteSpace ==
  {" ", "\n", "\t", "\r", "\f", "U+000B", "U+00A0", "U+1680", "U+2000", "U+2001",
   "U+2002", "U+2003", "U+2004", "U+2005", "U+2006", "U+2007", "U+2008", "U+2009",
   "U+200A", "U+2028", "U+2029", "U+202F", "U+205F", "U+3000", "U+FEFF"}

\* String.prototype.trim
RECURSIVE Trim(_)
Trim(s) ==
  IF s = << >> THEN s
  ELSE IF s[1] \in WhiteSpace THEN Trim(Tail(s))
  ELSE IF s[Len(s)] \in WhiteSpace THEN Trim(SubSeq(s, 1, Len(s) - 1))
  ELSE s

\* ------------------------------------------------------------------------
\* node:path (POSIX) as used by utils.ts
\* ------------------------------------------------------------------------

\* 1-based position of the last character that is not a slash; 0 if none.
LastNonSlash(s) ==
  LET I == {i \in 1..Len(s) : s[i] # "/"}
  IN  IF I = {} THEN 0 ELSE CHOOSE i \in I : \A j \in I : j <= i

\* 1-based position of the first character of the last path component.
StartPart(s) ==
  LET e == LastNonSlash(s)
      I == {i \in 1..e : s[i] = "/"}
  IN  IF I = {} THEN 1 ELSE (CHOOSE i \in I : \A j \in I : j <= i) + 1

\* path.basename(p): the last component, trailing slashes ignored.
basename(s) ==
  LET e == LastNonSlash(s)
  IN  IF e = 0 THEN << >> ELSE SubSeq(s, StartPart(s), e)

\* path.dirname(p)
dirname(s) ==
  LET n == Len(s)
      hasRoot == n > 0 /\ s[1] = "/"
      \* slashes at positions >= 2 that have a non-slash character after them
      I == {i \in 2..n : s[i] = "/" /\ \E j \in (i + 1)..n : s[j] # "/"}
      end == IF I = {} THEN 0 ELSE CHOOSE i \in I : \A j \in I : j <= i
  IN  IF n = 0 THEN <<".">>
      ELSE IF end = 0 THEN (IF hasRoot THEN <<"/">> ELSE <<".">>)
      ELSE IF hasRoot /\ end = 2 THEN <<"/", "/">>
      ELSE SubSeq(s, 1, end - 1)

\* path.extname(p): from the last dot of the last component to its end; empty
\* when there is no dot, the dot starts the component, or the component is '..'.
extname(s) ==
  LET e == LastNonSlash(s)
      sp == StartPart(s)
      D == {i \in sp..e : s[i] = "."}
      startDot == IF D = {} THEN 0 ELSE CHOOSE i \in D : \A j \in D : j <= i
      preDotState == IF startDot = sp THEN 0 ELSE IF s[sp] = "." THEN 1 ELSE -1
  IN  IF e = 0 \/ startDot = 0 THEN << >>
      ELSE IF preDotState = 0 THEN << >>
      ELSE IF preDotState = 1 /\ startDot = e /\ startDot = sp + 1 THEN << >>
      ELSE SubSeq(s, startDot, e)

\* The non-empty components of a path.
Components(p) == SelectSeq(Split(p, <<"/">>), LAMBDA c : c # << >>)

\* Length of the longest common prefix of two sequences.
RECURSIVE CommonPrefix(_, _)
CommonPrefix(a, b) ==
  IF a = << >> \/ b = << >> \/ a[1] # b[1] THEN 0
  ELSE 1 + CommonPrefix(Tail(a), Tail(b))

\* path.relative(from, to) for two paths resolved against the same working
\* directory and free of '.' and '..' components: one '..' for each component
\* of from below the common prefix, then the rest of to.
relative(from, to) ==
  LET f == Components(from)
      t == Components(to)
      c == CommonPrefix(f, t)
  IN  Join([i \in 1..(Len(f) - c) |-> <<".", ".">>] \o SubSeq(t, c + 1, Len(t)), <<"/">>)

\* ------------------------------------------------------------------------
\* JavaScript values: strings, booleans and undefined
\* ------------------------------------------------------------------------

\* v is the value's String() form.
Str(s) == [t |-> "string", v |-> s]

Undefined == [t |-> "undefined", v |-> <<"u", "n", "d", "e", "f", "i", "n", "e", "d">>]

JsTrue == [t |-> "boolean", v |-> <<"t", "r", "u", "e">>]

JsFalse == [t |-> "boolean", v |-> <<"f", "a", "l", "s", "e">>]

\* ToBoolean: undefined, false and the empty string are falsy.
Truthy(x) == (x.t = "string" /\ x.v # << >>) \/ x = JsTrue

\* A destructuring default: `= d` applies to undefined only.
OrDefault(x, d) == IF x = Undefined THEN d ELSE x

\* ------------------------------------------------------------------------
\* utils.ts
\* ------------------------------------------------------------------------

DotMd == <<".", "m", "d">>

IndexMd == <<"i", "n", "d", "e", "x", ".", "m", "d">>

\* stripExt: filePath.slice(0, -extension.length); -0 is 0, so a path without
\* an extension is sliced to the empty string.
stripExt(filePath) ==
  LET extension == extname(filePath)
  IN  JsSlice(filePath, 0, 0 - Len(extension))

\* A variant of IndexCollapsed that keeps the index.md file name.
IndexKept(filePath) == ReplaceBackslashes(filePath)

\* normalizePath, step 1 and 2: separators, then the index.md convention.
IndexCollapsed(filePath) ==
  LET normalized == ReplaceBackslashes(filePath)
  IN  IF basename(normalized) = IndexMd
      THEN (IF dirname(normalized) = <<".">> THEN << >> ELSE dirname(normalized))
      ELSE normalized

\* normalizePath, step 3 and 4: clean URLs or the links extension.
WithExtension(result, linksExtension, cleanUrls) ==
  IF cleanUrls
  THEN stripExt(result)
  ELSE IF extname(result) # << >>
       THEN stripExt(result) \o linksExtension
       ELSE IF result # << >> /\ result # <<"/">>
            THEN result \o linksExtension
            ELSE result

\* normalizePath, step 5: the leading slash, given to a non-empty result only.
WithLeadingSlash(result) ==
  IF result # << >> /\ ~StartsWith(result, <<"/">>)
  THEN <<"/">> \o result
  ELSE result

\* normalizePath, step 6: the domain, without its trailing slash.
WithDomain(result, domain) ==
  IF Truthy(domain)
  THEN (IF EndsWith(domain.v, <<"/">>) THEN JsSlice(domain.v, 0, -1) ELSE domain.v) \o result
  ELSE result

\* options: [domain, linksExtension, cleanUrls], each possibly Undefined.
normalizePath(filePath, options) ==
  LET domain == options.domain
      linksExtension == OrDefault(options.linksExtension, Str(DotMd)).v
      cleanUrls == Truthy(OrDefault(options.cleanUrls, JsFalse))
  IN  WithDomain(
        WithLeadingSlash(
          WithExtension(IndexCollapsed(filePath), linksExtension, cleanUrls)),
        domain)

\* generateMetadata: `# ${title}\n\nSource: ${normalizedPath}`
generateMetadata(title, relativePath, options) ==
  <<"#", " ">> \o title \o <<"\n", "\n", "S", "o", "u", "r", "c", "e", ":", " ">>
    \o normalizePath(relativePath, options)

\* String() of a built-in function of the given name.
NativeFunction(name) ==
  [t |-> "function",
   v |-> <<"f", "u", "n", "c", "t", "i", "o", "n", " ">> \o name \o <<"(", ")", " ", "{", " ", "[", "n", "a", "t", "i", "v", "e", " ", "c", "o", "d", "e", "]", " ", "}">>]

\* The methods of Object.prototype, named as their keys.
ObjectPrototypeMethods ==
  {<<"t", "o", "S", "t", "r", "i", "n", "g">>,
   <<"v", "a", "l", "u", "e", "O", "f">>,
   <<"h", "a", "s", "O", "w", "n", "P", "r", "o", "p", "e", "r", "t", "y">>,
   <<"i", "s", "P", "r", "o", "t", "o", "t", "y", "p", "e", "O", "f">>,
   <<"p", "r", "o", "p", "e", "r", "t", "y", "I", "s", "E", "n", "u", "m", "e", "r", "a", "b", "l", "e">>,
   <<"t", "o", "L", "o", "c", "a", "l", "e", "S", "t", "r", "i", "n", "g">>,
   <<"_", "_", "d", "e", "f", "i", "n", "e", "G", "e", "t", "t", "e", "r", "_", "_">>,
   <<"_", "_", "d", "e", "f", "i", "n", "e", "S", "e", "t", "t", "e", "r", "_", "_">>,
   <<"_", "_", "l", "o", "o", "k", "u", "p", "G", "e", "t", "t", "e", "r", "_", "_">>,
   <<"_", "_", "l", "o", "o", "k", "u", "p", "S", "e", "t", "t", "e", "r", "_", "_">>}

\* The properties every plain object inherits from Object.prototype, with their
\* String() forms; variables[key] finds them when the object has no such key.
\* constructor is the function Object and __proto__ is Object.prototype itself.
ObjectPrototype ==
  [key \in ObjectPrototypeMethods \cup {<<"c", "o", "n", "s", "t", "r", "u", "c", "t", "o", "r">>, <<"_", "_", "p", "r", "o", "t", "o", "_", "_">>} |->
     IF key = <<"c", "o", "n", "s", "t", "r", "u", "c", "t", "o", "r">> THEN NativeFunction(<<"O", "b", "j", "e", "c", "t">>)
     ELSE IF key = <<"_", "_", "p", "r", "o", "t", "o", "_", "_">> THEN [t |-> "object", v |-> <<"[", "o", "b", "j", "e", "c", "t", " ", "O", "b", "j", "e", "c", "t", "]">>]
     ELSE NativeFunction(key)]

\* variables[key] on an object literal: own property, else inherited, else undefined.
Get(variables, key) ==
  IF key \in DOMAIN variables THEN variables[key]
  ELSE IF key \in DOMAIN ObjectPrototype THEN ObjectPrototype[key]
  ELSE Undefined

\* The callback of expandTemplate's replace.
Replacement(variables, key) ==
  IF Get(variables, key) # Undefined THEN Get(variables, key).v ELSE << >>

\* template.replace(/\{([^}]+)\}/g, callback), scanning from position from:
\* a match is '{', one or more characters other than '}', then '}'.
RECURSIVE ExpandFrom(_, _, _)
ExpandFrom(template, variables, from) ==
  IF from > Len(template) THEN << >>
  ELSE LET close == IndexOf(template, <<"}">>, from + 1)
       IN  IF template[from] = "{" /\ close > from + 1
           THEN Replacement(variables, SubSeq(template, from + 1, close - 1))
                  \o ExpandFrom(template, variables, close + 1)
           ELSE <<template[from]>> \o ExpandFrom(template, variables, from + 1)

expandTemplate(template, variables) == ExpandFrom(template, variables, 1)

\* ------------------------------------------------------------------------
\* index.ts: generateTOC
\* ------------------------------------------------------------------------

Terminators == {".", "!", "?"}

\* firstPara.match(/^[^.!?]+[.!?]/): the text up to and including the first
\* terminator, when at least one other character precedes it; none otherwise.
\* The result is <<match>> or << >> (null).
FirstSentence(firstPara) ==
  LET I == {i \in 1..Len(firstPara) : firstPara[i] \in Terminators}
      k == IF I = {} THEN 0 ELSE CHOOSE i \in I : \A j \in I : i <= j
  IN  IF k <= 1 THEN << >> ELSE <<SubSeq(firstPara, 1, k)>>

\* The description of a page: the trimmed first sentence of the first
\* blank-line-delimited paragraph of its content.
Description(content) ==
  LET firstPara == Split(content, <<"\n", "\n">>)[1]
      match == FirstSentence(firstPara)
  IN  IF firstPara # << >> /\ match # << >> THEN Trim(match[1]) ELSE << >>

\* One line of the table of contents.
TOCLine(file, srcDir, options) ==
  LET relativePath == relative(srcDir, file.path)
      normalizedPath == normalizePath(relativePath, options)
      description == Description(file.content)
  IN  <<"-", " ", "[">> \o file.title \o <<"]", "(">> \o normalizedPath \o <<")">>
        \o (IF description # << >> THEN <<":", " ">> \o description ELSE << >>)

generateTOC(preparedFiles, srcDir, options) ==
  Join([i \in 1..Len(preparedFiles) |-> TOCLine(preparedFiles[i], srcDir, options)],
       <<"\n">>)

\* ------------------------------------------------------------------------
\* index.ts: generateLLMsFullTxt, per file
\* ------------------------------------------------------------------------

Divider == <<"\n", "\n", "-", "-", "-", "\n", "\n">>

\* String(await remark().use(remarkFrontmatter).process(content)) for a body
\* made of blank-line-separated blocks, each a heading, a paragraph (inline
\* HTML included) or a '---' thematic break that does not open the body:
\* blocks come back separated by one blank line, a thematic break is written
\* '***', and a non-empty document ends with a newline.
remarkProcess(content) ==
  LET blocks == SelectSeq(Split(content, <<"\n", "\n">>), LAMBDA b : b # << >>)
      out == [i \in 1..Len(blocks) |->
                IF blocks[i] = <<"-", "-", "-">> THEN <<"*", "*", "*">> ELSE blocks[i]]
  IN  IF Len(blocks) = 0 THEN << >> ELSE Join(out, <<"\n", "\n">>) \o <<"\n">>

\* htmlContent.replace(/<[^>]*>/g, ''), scanning from position from.
RECURSIVE StripTagsFrom(_, _)
StripTagsFrom(s, from) ==
  IF from > Len(s) THEN << >>
  ELSE LET close == IndexOf(s, <<">">>, from + 1)
       IN  IF s[from] = "<" /\ close > 0
           THEN StripTagsFrom(s, close + 1)
           ELSE <<s[from]>> \o StripTagsFrom(s, from + 1)

StripTags(s) == StripTagsFrom(s, 1)

Metadata(file, srcDir, options) ==
  generateMetadata(file.title, relative(srcDir, file.path), options)

\* The section returned when the markup processing succeeded.
SectionAfterProcess(file, srcDir, options) ==
  Metadata(file, srcDir, options) \o <<"\n", "\n">> \o StripTags(remarkProcess(file.content))

\* A variant of SectionAfterThrow that loses the content of the page.
SectionAfterThrowEmpty(file, srcDir, options) ==
  Metadata(file, srcDir, options) \o <<"\n", "\n">>

\* The section returned when the markup processing threw: the catch block only
\* warns, so contentToProcess is still the raw content.
SectionAfterThrow(file, srcDir, options) ==
  Metadata(file, srcDir, options) \o <<"\n", "\n">> \o file.content

\* A variant of Settle that collects the values in the order they arrive.
SettleInArrivalOrder(values, i, section) ==
  LET free == {k \in DOMAIN values : values[k] = << >>}
      first == CHOOSE k \in free : \A j \in free : k <= j
  IN  [values EXCEPT ![first] = section]

\* Promise.all keeps each value at the index of its promise.
Settle(values, i, section) == [values EXCEPT ![i] = section]

\* A variant of JoinSections that joins with a thematic break written '***'.
JoinSectionsStars(values) == Join(values, <<"\n", "\n", "*", "*", "*", "\n", "\n">>)

\* sections.join('\n\n---\n\n')
JoinSections(values) == Join(values, Divider)

\* ------------------------------------------------------------------------
\* index.ts: generateLLMsTxt, step by step
\* ------------------------------------------------------------------------

TitleKey == <<"t", "i", "t", "l", "e">>

DescriptionKey == <<"d", "e", "s", "c", "r", "i", "p", "t", "i", "o", "n">>

TocKey == <<"t", "o", "c">>

\* { title, description, toc: '', ...templateVariables }
InitialVariables(siteConfig, templateVariables) ==
  templateVariables @@ (TitleKey :> siteConfig.title)
    @@ (DescriptionKey :> siteConfig.description) @@ (TocKey :> Str(<< >>))

\* The backfill from the front-matter of the index document.
Backfill(variables, templateVariables, data) ==
  LET withTitle ==
        IF Truthy(data.title) /\ ~Truthy(Get(templateVariables, TitleKey))
        THEN [variables EXCEPT ![TitleKey] = data.title] ELSE variables
  IN  IF Truthy(data.description) /\ ~Truthy(Get(templateVariables, DescriptionKey))
      THEN [withTitle EXCEPT ![DescriptionKey] = data.description] ELSE withTitle

\* typeof variables.toc === 'boolean' && variables.toc === false
TocDisabled(variables) == variables[TocKey] = JsFalse

\* ------------------------------------------------------------------------
\* Inputs of the calls
\* ------------------------------------------------------------------------

PathComponents == {IndexMd, <<"g", "u", "i", "d", "e", ".", "m", "d">>, <<"a", "p", "i">>, <<"v", "1", ".", "2">>}

Separators == {"/", "\\"}

\* The paths of exactly n components.
RECURSIVE PathsOfDepth(_)
PathsOfDepth(n) ==
  IF n = 1 THEN PathComponents
  ELSE {p \o <<sep>> \o c : p \in PathsOfDepth(n - 1), sep \in Separators, c \in PathComponents}

FilePaths == UNION {PathsOfDepth(n) : n \in 1..MaxDepth}

Domains == {Undefined, Str(<<"h", "t", "t", "p", "s", ":", "/", "/", "x", ".", "i", "o">>), Str(<<"h", "t", "t", "p", "s", ":", "/", "/", "x", ".", "i", "o", "/">>)}

LinksExtensions == {Undefined, Str(DotMd), Str(<<".", "h", "t", "m", "l">>)}

LinkOptions ==
  [domain : Domains, linksExtension : LinksExtensions, cleanUrls : {Undefined, JsFalse, JsTrue}]

\* The options index.ts passes on: the links extension and cleanUrls are set.
DefaultOptions == [domain |-> Undefined, linksExtension |-> Str(DotMd), cleanUrls |-> JsFalse]

PassedOptions ==
  {o \in LinkOptions : o.linksExtension # Undefined /\ o.cleanUrls # Undefined}

SrcDir == <<"d", "o", "c", "s">>

Home == [path |-> <<"d", "o", "c", "s", "/", "i", "n", "d", "e", "x", ".", "m", "d">>, title |-> <<"H", "o", "m", "e">>, content |-> <<"#", " ", "H", "o", "m", "e", "\n", "\n", "W", "e", "l", "c", "o", "m", "e", " ", "h", "e", "r", "e", ".">>]

Guide == [path |-> <<"d", "o", "c", "s", "/", "g", "u", "i", "d", "e", ".", "m", "d">>, title |-> <<"G", "u", "i", "d", "e">>, content |-> <<"#", " ", "G", "u", "i", "d", "e", "\n", "\n", "L", "e", "a", "r", "n", " ", "m", "o", "r", "e", ".">>]

Api ==
  [path |-> <<"d", "o", "c", "s", "/", "a", "p", "i", "/", "i", "n", "d", "e", "x", ".", "m", "d">>, title |-> <<"A", "P", "I">>,
   content |-> <<"U", "s", "e", " ", "<", "b", ">", "i", "t", "<", "/", "b", ">", "!", " ", "N", "o", "w", ".", "\n", "\n", "-", "-", "-", "\n", "\n", "E", "n", "d">>]

PreparedFiles == {Home, Guide, Api}

FileLists == UNION {[1..n -> PreparedFiles] : n \in 0..MaxFiles}

Templates == {<<"#", " ", "{", "t", "i", "t", "l", "e", "}", "\n", ">", " ", "{", "d", "e", "s", "c", "r", "i", "p", "t", "i", "o", "n", "}", "\n", "{", "d", "e", "t", "a", "i", "l", "s", "}", "\n", "{", "t", "o", "c", "}">>, <<"{", "t", "i", "t", "l", "e", "}", ":", " ", "{", "d", "e", "s", "c", "r", "i", "p", "t", "i", "o", "n", "}">>}

SiteConfig == [title |-> Str(<<"S", "i", "t", "e">>), description |-> Str(<<"D", "o", "c", "s">>)]

\* templateVariables: each of title, description and toc is absent or has
\* one of these values.
Absent == [t |-> "absent", v |-> << >>]

TemplateVariables ==
  {[k \in {key \in {TitleKey, DescriptionKey, TocKey} :
             (key = TitleKey /\ tt # Absent) \/ (key = DescriptionKey /\ dd # Absent)
               \/ (key = TocKey /\ tc # Absent)} |->
      IF k = TitleKey THEN tt ELSE IF k = DescriptionKey THEN dd ELSE tc] :
    tt \in {Absent, Undefined, Str(<< >>), Str(<<"T">>)},
    dd \in {Absent, Str(<< >>), Str(<<"D">>)},
    tc \in {Absent, JsFalse, JsTrue, Str(<< >>), Str(<<"x">>)}}

\* The front-matter of the index document.
IndexData ==
  [title : {Undefined, Str(<<"D", "o", "c">>)}, description : {Undefined, Str(<<"A", "b", "o", "u", "t">>)}]

\* The lists of prepared files generateLLMsTxt is called with.
TxtFileLists == {<< >>, <<Home, Guide>>}

\* expandTemplate called directly
ExpandTemplates == {<<"{", "a", "}", "-", "{", "b", "}">>, <<"{", "c", "}", "{", "}">>, <<"{", "c", "o", "n", "s", "t", "r", "u", "c", "t", "o", "r", "}">>, <<"{", "b">>}

ExpandVariables ==
  {[k \in {key \in {<<"a">>, <<"b">>, <<"c">>} :
             (key = <<"a">> /\ va # Absent) \/ (key = <<"b">> /\ vb # Absent)
               \/ (key = <<"c">> /\ vc # Absent)} |->
      IF k = <<"a">> THEN va ELSE IF k = <<"b">> THEN vb ELSE vc] :
    va \in {Absent, Str(<<"1">>)},
    vb \in {Absent, Undefined, Str(<<"2">>)},
    vc \in {Absent, Undefined, Str(<<"{", "a", "}">>), JsFalse}}

\* ------------------------------------------------------------------------
\* State
\* ------------------------------------------------------------------------

VARIABLES
  pc,         \* "idle", the step the running call is at, or "returned"
  args,       \* the running call: its function fn and its arguments
  ret,        \* the string the call returned
  variables,  \* generateLLMsTxt: the variables object
  indexFile,  \* generateLLMsTxt: what the read of the index document gave
  tocCalls,   \* generateLLMsTxt: number of calls of generateTOC
  task,       \* generateLLMsFullTxt: the state of each file's callback
  sections,   \* generateLLMsFullTxt: the values array of Promise.all
  order       \* generateLLMsFullTxt: the files in the order their callbacks ended

vars == <<pc, args, ret, variables, indexFile, tocCalls, task, sections, order>>

NoVariables == (TocKey :> Str(<< >>))

Unread == [state |-> "unread", data |-> [title |-> Undefined, description |-> Undefined]]

Init ==
  /\ pc = "idle"
  /\ args = [fn |-> "none"]
  /\ ret = << >>
  /\ variables = NoVariables
  /\ indexFile = Unread
  /\ tocCalls = 0
  /\ task = << >>
  /\ sections = << >>
  /\ order = << >>

txtVars == <<variables, indexFile, tocCalls>>

fullVars == <<task, sections, order>>

\* ------------------------------------------------------------------------
\* normalizePath, expandTemplate and generateTOC: synchronous calls
\* ------------------------------------------------------------------------

CallNormalizePath ==
  /\ pc = "idle"
  /\ \E p \in FilePaths, o \in LinkOptions :
       args' = [fn |-> "normalizePath", filePath |-> p, options |-> o]
  /\ pc' = "called"
  /\ UNCHANGED <<ret, txtVars, fullVars>>

ReturnNormalizePath ==
  /\ pc = "called" /\ args.fn = "normalizePath"
  /\ ret' = normalizePath(args.filePath, args.options)
  /\ pc' = "returned"
  /\ UNCHANGED <<args, txtVars, fullVars>>

CallExpandTemplate ==
  /\ pc = "idle"
  /\ \E t \in ExpandTemplates, v \in ExpandVariables :
       args' = [fn |-> "expandTemplate", template |-> t, variables |-> v]
  /\ pc' = "called"
  /\ UNCHANGED <<ret, txtVars, fullVars>>

ReturnExpandTemplate ==
  /\ pc = "called" /\ args.fn = "expandTemplate"
  /\ ret' = expandTemplate(args.template, args.variables)
  /\ pc' = "returned"
  /\ UNCHANGED <<args, txtVars, fullVars>>

CallGenerateTOC ==
  /\ pc = "idle"
  /\ \E fs \in FileLists, o \in PassedOptions :
       args' = [fn |-> "generateTOC", preparedFiles |-> fs, srcDir |-> SrcDir, options |-> o]
  /\ pc' = "called"
  /\ UNCHANGED <<ret, txtVars, fullVars>>

ReturnGenerateTOC ==
  /\ pc = "called" /\ args.fn = "generateTOC"
  /\ ret' = generateTOC(args.preparedFiles, args.srcDir, args.options)
  /\ pc' = "returned"
  /\ UNCHANGED <<args, txtVars, fullVars>>

\* ------------------------------------------------------------------------
\* generateLLMsTxt: an async function; an action is one run of it between
\* two awaits (the read of the index document, the promise of generateTOC)
\* ------------------------------------------------------------------------

\* Lines 93 to 107 for the call a, entered with the variables v: with toc false
\* the template is expanded and the call returns in the same run; otherwise
\* generateTOC is called and the function yields at the await of its promise,
\* variables.toc not yet assigned.
TxtGenerateTOC(a, v) ==
  /\ variables' = v
  /\ IF TocDisabled(v)
     THEN /\ tocCalls' = tocCalls
          /\ ret' = expandTemplate(a.LLMsTxtTemplate, v)
          /\ pc' = "returned"
     ELSE /\ tocCalls' = tocCalls + 1
          /\ ret' = ret
          /\ pc' = "toc"

\* The call runs up to its first await: the read of the index document, or,
\* when indexMd is empty and nothing is read, the promise of generateTOC.
CallGenerateLLMsTxt ==
  /\ pc = "idle"
  /\ \E fs \in TxtFileLists, o \in {DefaultOptions}, t \in Templates,
        tv \in TemplateVariables, im \in {<< >>, <<"d", "o", "c", "s", "/", "i", "n", "d", "e", "x", ".", "m", "d">>} :
       LET a == [fn |-> "generateLLMsTxt", preparedFiles |-> fs, srcDir |-> SrcDir,
                 options |-> o, LLMsTxtTemplate |-> t, templateVariables |-> tv,
                 siteConfig |-> SiteConfig, indexMd |-> im]
       IN  /\ args' = a
           /\ IF im = << >>
              THEN /\ indexFile' = [indexFile EXCEPT !.state = "skipped"]
                   /\ TxtGenerateTOC(a, InitialVariables(SiteConfig, tv))
              ELSE /\ variables' = InitialVariables(SiteConfig, tv)
                   /\ pc' = "index"
                   /\ UNCHANGED <<ret, indexFile, tocCalls>>
  /\ UNCHANGED fullVars

\* A variant of TxtReadFails whose catch block falls back to the site-level
\* variables, losing the supplied template variables.
TxtReadFailsResetting ==
  /\ pc = "index"
  /\ indexFile' = [indexFile EXCEPT !.state = "failed"]
  /\ TxtGenerateTOC(args, InitialVariables(args.siteConfig, [k \in {} |-> Undefined]))
  /\ UNCHANGED <<args, fullVars>>

\* fs.readFile rejects or matter() throws: the catch block warns, and the
\* function runs on to the TOC.
TxtReadFails ==
  /\ pc = "index"
  /\ indexFile' = [indexFile EXCEPT !.state = "failed"]
  /\ TxtGenerateTOC(args, variables)
  /\ UNCHANGED <<args, fullVars>>

\* The index document is read and parsed; its front-matter backfills, and the
\* function runs on to the TOC.
TxtReadIndex ==
  /\ pc = "index"
  /\ \E data \in IndexData :
       /\ indexFile' = [state |-> "read", data |-> data]
       /\ TxtGenerateTOC(args, Backfill(variables, args.templateVariables, data))
  /\ UNCHANGED <<args, fullVars>>

\* The promise of generateTOC resolves: variables.toc is assigned and the
\* template is expanded in the same run.
TxtExpand ==
  /\ pc = "toc"
  /\ variables' = [variables EXCEPT ![TocKey] =
                     Str(generateTOC(args.preparedFiles, args.srcDir, args.options))]
  /\ ret' = expandTemplate(args.LLMsTxtTemplate, variables')
  /\ pc' = "returned"
  /\ UNCHANGED <<args, indexFile, tocCalls, fullVars>>

\* ------------------------------------------------------------------------
\* generateLLMsFullTxt: one callback per file under Promise.all
\* ------------------------------------------------------------------------

CallGenerateLLMsFullTxt ==
  /\ pc = "idle"
  /\ \E fs \in FileLists, o \in PassedOptions :
       /\ args' = [fn |-> "generateLLMsFullTxt", preparedFiles |-> fs, srcDir |-> SrcDir,
                   options |-> o]
       /\ task' = [i \in 1..Len(fs) |-> "unstarted"]
       /\ sections' = [i \in 1..Len(fs) |-> << >>]
  /\ pc' = "map"
  /\ UNCHANGED <<ret, txtVars, order>>

\* preparedFiles.map: the callbacks run in input order, each up to its await
\* of the markup processing.
FullStart ==
  /\ pc = "map"
  /\ \E i \in DOMAIN task :
       /\ task[i] = "unstarted"
       /\ \A j \in 1..(i - 1) : task[j] # "unstarted"
       /\ task' = [task EXCEPT ![i] = "processing"]
  /\ UNCHANGED <<pc, args, ret, txtVars, sections, order>>

Mapped == \A i \in DOMAIN task : task[i] # "unstarted"

\* The processing of file i resolves, in any order among the files.
FullProcessed ==
  /\ pc = "map" /\ Mapped
  /\ \E i \in DOMAIN task :
       /\ task[i] = "processing"
       /\ task' = [task EXCEPT ![i] = "processed"]
       /\ sections' = Settle(sections, i,
                        SectionAfterProcess(args.preparedFiles[i], args.srcDir, args.options))
       /\ order' = Append(order, i)
  /\ UNCHANGED <<pc, args, ret, txtVars>>

\* The processing of file i throws and the callback catches it.
FullThrew ==
  /\ pc = "map" /\ Mapped
  /\ \E i \in DOMAIN task :
       /\ task[i] = "processing"
       /\ task' = [task EXCEPT ![i] = "threw"]
       /\ sections' = Settle(sections, i,
                        SectionAfterThrow(args.preparedFiles[i], args.srcDir, args.options))
       /\ order' = Append(order, i)
  /\ UNCHANGED <<pc, args, ret, txtVars>>

\* Promise.all resolves once every callback has returned; the sections are joined.
FullJoin ==
  /\ pc = "map"
  /\ \A i \in DOMAIN task : task[i] \in {"processed", "threw"}
  /\ ret' = JoinSections(sections)
  /\ pc' = "returned"
  /\ UNCHANGED <<args, txtVars, fullVars>>

Next ==
  \/ CallNormalizePath
  \/ ReturnNormalizePath
  \/ CallExpandTemplate
  \/ ReturnExpandTemplate
  \/ CallGenerateTOC
  \/ ReturnGenerateTOC
  \/ CallGenerateLLMsTxt
  \/ TxtReadFails
  \/ TxtReadIndex
  \/ TxtExpand
  \/ CallGenerateLLMsFullTxt
  \/ FullStart
  \/ FullProcessed
  \/ FullThrew
  \/ FullJoin

Spec == Init /\ [][Next]_vars

\* ------------------------------------------------------------------------
\* Properties
\* ------------------------------------------------------------------------

Returned(fn) == pc = "returned" /\ args.fn = fn

\* C1: for the pages Home (docs/index.md) and Guide (docs/guide.md) and the
\* default options, generateTOC returns exactly the two lines
\* '- [Home](/): Welcome here.' and '- [Guide](/guide.md): Learn more.'.
C1_EndToEndTOC ==
  (Returned("generateTOC") /\ args.preparedFiles = <<Home, Guide>>
     /\ args.options = DefaultOptions)
    => ret = <<"-", " ", "[", "H", "o", "m", "e", "]", "(", "/", ")", ":", " ", "W", "e", "l", "c", "o", "m", "e", " ", "h", "e", "r", "e", ".", "\n", "-", " ", "[", "G", "u", "i", "d", "e", "]", "(", "/", "g", "u", "i", "d", "e", ".", "m", "d", ")", ":", " ", "L", "e", "a", "r", "n", " ", "m", "o", "r", "e", ".">>

\* C2: the link normalizePath returns begins with '/' when no domain is given,
\* begins with the domain (less its trailing slash) when one is given, and
\* holds no backslash.
C2_LinkInvariant ==
  Returned("normalizePath")
    => /\ IF Truthy(args.options.domain)
          THEN StartsWith(ret, WithDomain(<< >>, args.options.domain))
          ELSE StartsWith(ret, <<"/">>)
       /\ \A i \in 1..Len(ret) : ret[i] # "\\"

\* C3: with toc supplied as false, generateLLMsTxt does not call generateTOC
\* and the returned text is the template expanded with an empty toc.
C3_TocFalseExpandsEmpty ==
  (Returned("generateLLMsTxt") /\ Get(args.templateVariables, TocKey) = JsFalse)
    => /\ tocCalls = 0
       /\ ret = expandTemplate(args.LLMsTxtTemplate,
                               [variables EXCEPT ![TocKey] = Str(<< >>)])

\* C4 as stated: for every path whose basename is index.md, the root-level
\* index.md included, normalizePath(p) = normalizePath(dirname(p)).
C4_IndexEqualsDirname ==
  (Returned("normalizePath") /\ basename(args.filePath) = IndexMd)
    => ret = normalizePath(dirname(args.filePath), args.options)

\* C4 as amended: for every path whose basename is index.md, whose parent
\* directory is not '.' and is not itself named index.md,
\* normalizePath(p) = normalizePath(dirname(p)) under the same options.
C4_NestedIndexEqualsDirname ==
  (Returned("normalizePath") /\ basename(args.filePath) = IndexMd
     /\ dirname(args.filePath) # <<".">>
     /\ basename(ReplaceBackslashes(dirname(args.filePath))) # IndexMd)
    => ret = normalizePath(dirname(args.filePath), args.options)

C4_Witness ==
  /\ Returned("normalizePath")
  /\ args.filePath = <<"a", "p", "i", "/", "i", "n", "d", "e", "x", ".", "m", "d">>
  /\ args.options = DefaultOptions
  /\ ret = <<"/", "a", "p", "i", ".", "m", "d">>

\* C5: with cleanUrls true and no domain, a path without an extension (a
\* non-index path, or the directory of a nested index.md) comes back whole
\* behind a leading '/', and normalizing the result again leaves it unchanged.
C5_CleanUrlsKeepExtensionless ==
  LET normalized == ReplaceBackslashes(args.filePath)
      q == IF basename(normalized) = IndexMd THEN dirname(normalized) ELSE normalized
  IN  (Returned("normalizePath") /\ args.options.cleanUrls = JsTrue
         /\ ~Truthy(args.options.domain) /\ q # <<".">> /\ extname(q) = << >>)
        => /\ ret = <<"/">> \o q
           /\ normalizePath(ret, args.options) = ret

\* The section the i-th file must give, by the outcome of its processing.
ExpectedSection(i) ==
  LET file == args.preparedFiles[i]
      header == generateMetadata(file.title, relative(args.srcDir, file.path), args.options)
      body == IF task[i] = "threw" THEN file.content ELSE StripTags(remarkProcess(file.content))
  IN  header \o <<"\n", "\n">> \o body

\* C6: whatever the order in which the per-file tasks end, the i-th section of
\* the returned text is that of the i-th input file.
C6_SectionsInInputOrder ==
  Returned("generateLLMsFullTxt")
    => /\ \A i \in DOMAIN sections :
            StartsWith(sections[i],
                       <<"#", " ">> \o args.preparedFiles[i].title \o <<"\n", "\n", "S", "o", "u", "r", "c", "e", ":", " ">>)
       /\ ret = Join([i \in DOMAIN sections |-> ExpectedSection(i)], Divider)

C6_Witness ==
  /\ Returned("generateLLMsFullTxt")
  /\ args.preparedFiles = <<Home, Guide>>
  /\ order = <<2, 1>>
  /\ StartsWith(ret, <<"#", " ", "H", "o", "m", "e">>)

\* C7: a file whose processing throws never makes the call fail; its section
\* is its metadata header followed by its raw content, and the sections of
\* the other files are what they are when no file fails.
C7_FailureIsolated ==
  /\ (args.fn = "generateLLMsFullTxt" /\ pc = "map"
        /\ \A i \in DOMAIN task : task[i] \in {"processed", "threw"})
       => ENABLED FullJoin
  /\ Returned("generateLLMsFullTxt")
       => \A i \in DOMAIN task :
            LET file == args.preparedFiles[i]
                header == generateMetadata(file.title, relative(args.srcDir, file.path),
                                           args.options)
            IN  /\ task[i] = "threw" => sections[i] = header \o <<"\n", "\n">> \o file.content
                /\ task[i] = "processed"
                     => sections[i] = SectionAfterProcess(file, args.srcDir, args.options)
                /\ Contains(ret, sections[i])

C7_Witness ==
  /\ Returned("generateLLMsFullTxt")
  /\ args.preparedFiles = <<Api, Guide>>
  /\ task = <<"threw", "processed">>
  /\ Contains(ret, Api.content)

\* The segments of the returned text between the dividers are one per file,
\* the i-th starting with '# ' and the title of the i-th file.
OneSegmentPerPage ==
  LET segments == Split(ret, Divider)
  IN  /\ Len(segments) = Len(args.preparedFiles)
      /\ \A i \in 1..Len(args.preparedFiles) :
           StartsWith(segments[i], <<"#", " ">> \o args.preparedFiles[i].title)

\* C8 as stated: for every list of files, the empty list and bodies holding a
\* '---' break between blank lines included, splitting the returned text on
\* the divider gives one segment per file, each starting with '# ' and its title.
C8_OneSegmentPerPage == Returned("generateLLMsFullTxt") => OneSegmentPerPage

\* C8 as amended: the same for every non-empty list of files in which no
\* section, followed by a blank line, holds the text of the divider.
C8_OneSegmentPerCleanPage ==
  (Returned("generateLLMsFullTxt") /\ Len(args.preparedFiles) > 0
     /\ \A i \in DOMAIN sections : ~Contains(sections[i] \o <<"\n", "\n">>, Divider))
    => OneSegmentPerPage

C8_Witness ==
  /\ Returned("generateLLMsFullTxt")
  /\ args.preparedFiles = <<Api, Home>>
  /\ task = <<"processed", "threw">>
  /\ Len(Split(ret, Divider)) = 2

\* The value the claim gives a variable: the supplied one, else the one of the
\* index document's front-matter, else the site-level one.
ClaimedValue(key, fromIndex, fromSite) ==
  IF key \in DOMAIN args.templateVariables THEN args.templateVariables[key]
  ELSE IF indexFile.state = "read" /\ fromIndex # Undefined THEN fromIndex
  ELSE fromSite

\* C9: a title or description supplied in templateVariables, the empty string
\* included, is the value expanded; the front-matter of the index document
\* replaces the site-level value only for a key the caller did not supply.
C9_ExplicitVariablesWin ==
  (Returned("generateLLMsTxt")
     /\ \A k \in DOMAIN args.templateVariables : args.templateVariables[k] # Undefined)
    => /\ variables[TitleKey]
            = ClaimedValue(TitleKey, indexFile.data.title, args.siteConfig.title)
       /\ variables[DescriptionKey]
            = ClaimedValue(DescriptionKey, indexFile.data.description,
                           args.siteConfig.description)

\* C10: a template that is one placeholder '{key}' expands to the value of the
\* key when the variables define it and to the empty string otherwise, and the
\* value is not expanded again.
C10_PlaceholderExpandsOnce ==
  \A key \in {<<"a">>, <<"b">>, <<"c">>, <<"c", "o", "n", "s", "t", "r", "u", "c", "t", "o", "r">>} :
    (Returned("expandTemplate") /\ args.template = <<"{">> \o key \o <<"}">>)
      => ret = IF key \in DOMAIN args.variables /\ args.variables[key] # Undefined
               THEN args.variables[key].v
               ELSE << >>

\* The value a variable has before the read of the index document: the
\* supplied one, else the site-level one.
ValueBeforeRead(key, fromSite) ==
  IF key \in DOMAIN args.templateVariables THEN args.templateVariables[key] ELSE fromSite

\* What holds of a call whose read of the index document failed.
AfterIndexFailure ==
  (args.fn = "generateLLMsTxt" /\ indexFile.state = "failed")
    => /\ variables[TitleKey] = ValueBeforeRead(TitleKey, args.siteConfig.title)
       /\ variables[DescriptionKey]
            = ValueBeforeRead(DescriptionKey, args.siteConfig.description)
       /\ pc \in {"toc", "returned"}
       /\ tocCalls = IF Get(args.templateVariables, TocKey) = JsFalse THEN 0 ELSE 1
       /\ pc = "returned"
            => /\ Get(args.templateVariables, TocKey) # JsFalse
                    => variables[TocKey]
                         = Str(generateTOC(args.preparedFiles, args.srcDir, args.options))
               /\ ret = expandTemplate(args.LLMsTxtTemplate, variables)

\* The steps of a call around a failed read of the index document: the
\* failing read leaves the variables as they are, and the step after it
\* returns the expanded template.
StepsAfterIndexFailure ==
  /\ (args.fn = "generateLLMsTxt" /\ pc = "index" /\ indexFile'.state = "failed")
       => variables' = variables
  /\ (args.fn = "generateLLMsTxt" /\ indexFile.state = "failed")
       => /\ pc = "toc"
          /\ pc' = "returned"
          /\ ret' = expandTemplate(args.LLMsTxtTemplate, variables')
          /\ UNCHANGED <<args, indexFile>>

\* C11: when the read or the parse of the index document fails, title and
\* description keep the values they had before the read, generateTOC is
\* still called (unless toc is false), and the call returns the template
\* expanded with those variables.
C11_IndexFailureNonFatal ==
  /\ []AfterIndexFailure
  /\ [][StepsAfterIndexFailure]_vars

C11_Witness ==
  /\ Returned("generateLLMsTxt")
  /\ indexFile.state = "failed"
  /\ args.preparedFiles = <<Home, Guide>>
  /\ DOMAIN args.templateVariables = {TitleKey}
  /\ variables[TitleKey] = Str(<<"T">>)
  /\ variables[DescriptionKey] = args.siteConfig.description
  /\ tocCalls = 1
  /\ StartsWith(ret, <<"T", ":", " ", "D", "o", "c", "s">>)

====
